---- MODULE Spec2Model ----
(***************************************************************************)
(* Model of sample_script.py: a batch job that downloads one text file of  *)
(* Thai population statistics per year, parses its pipe-delimited lines,   *)
(* inserts them into the DuckDB table thai_population and, once a fetch    *)
(* returns Err, exports the table as hive-partitioned parquet files.       *)
(*                                                                         *)
(* A Python str is a sequence of one-character strings.                    *)
(***************************************************************************)
EXTENDS Integers, Sequences, FiniteSets, TLC

VARIABLES
    pc,               \* position of the script: create, fetch, rows, export, done, crashed
    year,             \* the module-level year counter
    rows,             \* lines of the current body still to be iterated by the for loop
    thai_population,  \* the DuckDB table, rows in insertion order
    created,          \* number of times CREATE OR REPLACE TABLE ran
    requests,         \* the calls of requests.get in order: the year asked for and the URL
    loaded,           \* the years whose for loop ran to its end, in order
    outcome,          \* what the last get_data_stat_by_year call did: none, Ok, Err, raise
    crash,            \* exception that ended the process, "none" while it runs
    exports,          \* number of calls of write_into_hive_partition
    disk,             \* files under ./datasets/thai_population
    disk0,            \* the files that were there when the process started
    arg,              \* input of the pure function under test (pure-function specifications)
    result            \* its output

vars == <<pc, year, rows, thai_population, created, requests, loaded, outcome, crash,
          exports, disk, disk0, arg, result>>

-----------------------------------------------------------------------------
(* Characters *)

BOM == "FEFF"          \* the character U+FEFF
PIPE == "|"
COMMA == ","
NL == "\n"

Digits == {"0", "1", "2", "3", "4", "5", "6", "7", "8", "9"}

DigitVal(c) ==
    CASE c = "0" -> 0 [] c = "1" -> 1 [] c = "2" -> 2 [] c = "3" -> 3 [] c = "4" -> 4
      [] c = "5" -> 5 [] c = "6" -> 6 [] c = "7" -> 7 [] c = "8" -> 8 [] c = "9" -> 9

DigitChar(d) ==
    CASE d = 0 -> "0" [] d = 1 -> "1" [] d = 2 -> "2" [] d = 3 -> "3" [] d = 4 -> "4"
      [] d = 5 -> "5" [] d = 6 -> "6" [] d = 7 -> "7" [] d = 8 -> "8" [] d = 9 -> "9"

-----------------------------------------------------------------------------
(* Python str methods used by the script *)

RECURSIVE lstrip(_, _)
lstrip(s, chars) ==
    IF s # <<>> /\ Head(s) \in chars THEN lstrip(Tail(s), chars) ELSE s

RECURSIVE rstrip(_, _)
rstrip(s, chars) ==
    IF s # <<>> /\ s[Len(s)] \in chars THEN rstrip(SubSeq(s, 1, Len(s) - 1), chars) ELSE s

\* str.strip(chars): every leading and every trailing character in chars goes
strip(s, chars) == rstrip(lstrip(s, chars), chars)

\* index of the first occurrence of c in s, 0 when there is none
FirstIndex(s, c) ==
    IF \E i \in 1..Len(s) : s[i] = c
    THEN CHOOSE i \in 1..Len(s) : s[i] = c /\ \A j \in 1..(i - 1) : s[j] # c
    ELSE 0

\* str.split(sep): always at least one piece, "".split(sep) = [""]
RECURSIVE split(_, _)
split(s, sep) ==
    LET i == FirstIndex(s, sep) IN
    IF i = 0 THEN <<s>>
    ELSE <<SubSeq(s, 1, i - 1)>> \o split(SubSeq(s, i + 1, Len(s)), sep)

\* str.splitlines(): "".splitlines() = [], no empty last piece after a final newline
RECURSIVE splitlines(_)
splitlines(s) ==
    LET i == FirstIndex(s, NL) IN
    IF s = <<>> THEN <<>>
    ELSE IF i = 0 THEN <<s>>
    ELSE <<SubSeq(s, 1, i - 1)>> \o splitlines(SubSeq(s, i + 1, Len(s)))

\* str.replace(old, ''), old one character
remove(s, old) == SelectSeq(s, LAMBDA c : c # old)

\* int(s) raises ValueError unless s is a decimal numeral
int_raises(s) == s = <<>> \/ \E i \in 1..Len(s) : s[i] \notin Digits

RECURSIVE int(_)
int(s) == IF s = <<>> THEN 0 ELSE 10 * int(SubSeq(s, 1, Len(s) - 1)) + DigitVal(s[Len(s)])

\* str(n) of a natural number, as the f-string renders it
RECURSIVE str(_)
str(n) == IF n < 10 THEN <<DigitChar(n)>> ELSE str(n \div 10) \o <<DigitChar(n % 10)>>

-----------------------------------------------------------------------------
(* The script's functions *)

clean_text(text) == strip(text, {BOM})

extract_row(row) == split(row, PIPE)

string_to_int_raises(value) == int_raises(remove(value, COMMA))

string_to_int(value) == int(remove(value, COMMA))

\* the Thai year in full, not shortened
convert_to_thai_year_full(yr) == yr + 543

convert_to_thai_year(yr) == (yr + 543) - 2500

\* The URL of the f-string, piece by piece
Url(yr) ==
    LET thai_year == convert_to_thai_year(yr) IN
    <<"https://stat.bora.dopa.go.th/new_stat/file/", thai_year, "/stat_c", thai_year, ".txt">>

\* The 14 values of the INSERT statement, each rendered between quotes
generate_insert_sql(data_year, yymm, cc_code, cc_desc, rcode_code, rcode_desc, ccaatt_code, ccaatt_desc, ccaattmm_code, ccaattmm_desc, male, female, total, house) ==
    <<str(data_year), yymm, str(cc_code), cc_desc, rcode_code, rcode_desc,
      ccaatt_code, ccaatt_desc, ccaattmm_code, ccaattmm_desc,
      str(male), str(female), str(total), str(house)>>

\* The row DuckDB stores for those values: the table's INTEGER columns are cast
\* from the quoted text, the VARCHAR columns keep it
StoredRow(v) ==
    [data_year |-> int(v[1]), yymm |-> v[2], cc_code |-> int(v[3]), cc_desc |-> v[4],
     rcode_code |-> v[5], rcode_desc |-> v[6], ccaatt_code |-> v[7],
     ccaatt_desc |-> v[8], ccaattmm_code |-> v[9], ccaattmm_desc |-> v[10],
     male |-> int(v[11]), female |-> int(v[12]), total |-> int(v[13]),
     house |-> int(v[14])]

\* Positions of cc_code, male, female, total, house among the 13 fields
NumericFields == {2, 10, 11, 12, 13}

\* The fields the for loop unpacks from one line
Unpack(row) == extract_row(strip(row, {PIPE}))

\* The loop body raises ValueError before it reaches duckdb.sql: the tuple
\* assignment needs exactly 13 values, string_to_int needs numerals
RowRaises(row) ==
    LET f == Unpack(row) IN
    IF Len(f) # 13 THEN TRUE
    ELSE \E k \in NumericFields : string_to_int_raises(f[k])

\* The 13 values the loop body passes on for a line that does not raise
RowValues(row) ==
    LET f == Unpack(row) IN
    <<f[1], string_to_int(f[2]), f[3], f[4], f[5], f[6], f[7], f[8], f[9],
      string_to_int(f[10]), string_to_int(f[11]), string_to_int(f[12]),
      string_to_int(f[13])>>

\* The statement the loop body builds from them
RowSql(data_year, row) ==
    LET v == RowValues(row) IN
    generate_insert_sql(data_year, v[1], v[2], v[3], v[4], v[5], v[6], v[7], v[8], v[9],
                        v[10], v[11], v[12], v[13])

\* PRIMARY KEY (data_year, cc_code): the insert of r is rejected
KeyTaken(table, r) ==
    \E i \in 1..Len(table) :
        table[i].data_year = r.data_year /\ table[i].cc_code = r.cc_code

-----------------------------------------------------------------------------
(* Bounds and inputs *)

StartYear == 1993

MaxYears == 3      \* years the source can serve before it is exhausted
MaxLines == 2      \* lines of one fetched body

RECURSIVE Join(_, _)
Join(pieces, sep) ==
    IF pieces = <<>> THEN <<>>
    ELSE IF Len(pieces) = 1 THEN pieces[1]
    ELSE pieces[1] \o <<sep>> \o Join(Tail(pieces), sep)

\* A published line: the fields joined by | between a leading and a trailing |
WrapLine(fields) == <<PIPE>> \o Join(fields, PIPE) \o <<PIPE>>

T == <<"a">>

Fields(cc_code, male) ==
    <<T, cc_code, T, T, T, T, T, T, T, male, <<"1">>, <<"2">>, <<"3">>>>

\* Lines a body of the driver's runs is made of. Text fields hold no quote
\* character: what a quote makes of the INSERT statement is not modelled.
DriverLines ==
    {WrapLine(Fields(<<"1">>, <<"1", COMMA, "0">>)),
     WrapLine(Fields(<<"0", "1">>, <<"7">>)),        \* cc_code 1 again, other counts
     WrapLine(Fields(<<"2">>, <<"1", COMMA, "0">>)),
     <<>>,                                           \* a blank line
     WrapLine(Fields(<<"1">>, T)),                   \* male is not a numeral
     WrapLine(Fields(T, <<"7">>)),                   \* cc_code is not a numeral
     WrapLine(SubSeq(Fields(<<"2">>, <<"7">>), 1, 12))}   \* 12 fields

\* Bodies the server may answer with: up to MaxLines lines, with or without a BOM
Bodies ==
    LET texts == {Join(ls, NL) : ls \in UNION {[1..n -> DriverLines] : n \in 0..MaxLines}}
    IN texts \cup {<<BOM>> \o t : t \in texts}

\* Files in ./datasets/thai_population
File(y, name, content) == [data_year |-> y, file |-> name, rows |-> content]

OldRow(y) == StoredRow(<<str(y), T, <<"1">>, T, T, T, T, T, T, T,
                         <<"9">>, <<"9">>, <<"9">>, <<"9">>>>)

\* What an earlier run of the job left behind
OldRun == {File(y, "data_0.parquet.gz", <<OldRow(y)>>) : y \in {StartYear, StartYear + 1}}

InitialDisks == {{}, OldRun}

-----------------------------------------------------------------------------
(* The script *)

Init ==
    /\ pc = "create"
    /\ year = StartYear
    /\ rows = <<>>
    /\ thai_population = <<>>
    /\ created = 0
    /\ requests = <<>>
    /\ loaded = <<>>
    /\ outcome = "none"
    /\ crash = "none"
    /\ exports = 0
    /\ disk0 \in InitialDisks
    /\ disk = disk0
    /\ arg = <<>>
    /\ result = <<>>

\* create_duck_db_table()
CreateTable ==
    /\ pc = "create"
    /\ thai_population' = <<>>
    /\ created' = created + 1
    /\ pc' = "fetch"
    /\ UNCHANGED <<year, rows, requests, outcome, crash, exports, disk, disk0, arg, result,
                   loaded>>

\* as FetchOk, with create_duck_db_table() called inside the while loop
FetchOkRecreate ==
    /\ pc = "fetch"
    /\ year < StartYear + MaxYears
    /\ \E value \in Bodies :
           rows' = splitlines(clean_text(value))
    /\ requests' = Append(requests, [year |-> year, url |-> Url(year)])
    /\ outcome' = "Ok"
    /\ thai_population' = <<>>
    /\ pc' = "rows"
    /\ UNCHANGED <<year, created, crash, exports, disk, disk0, arg, result, loaded>>

\* get_data_stat_by_year(year) returns Ok(value); clean_text and splitlines follow
FetchOk ==
    /\ pc = "fetch"
    /\ year < StartYear + MaxYears
    /\ \E value \in Bodies :
           rows' = splitlines(clean_text(value))
    /\ requests' = Append(requests, [year |-> year, url |-> Url(year)])
    /\ outcome' = "Ok"
    /\ pc' = "rows"
    /\ UNCHANGED <<year, thai_population, created, crash, exports, disk, disk0, arg, result,
                   loaded>>

\* response.ok is false: Err(response.text), and the loop breaks
FetchErr ==
    /\ pc = "fetch"
    /\ requests' = Append(requests, [year |-> year, url |-> Url(year)])
    /\ outcome' = "Err"
    /\ pc' = "export"
    /\ UNCHANGED <<year, rows, thai_population, created, crash, exports, disk, disk0,
                   arg, result,
                   loaded>>

\* requests.get raises (no connection, DNS failure, ...): nothing catches it
FetchRaise ==
    /\ pc = "fetch"
    /\ requests' = Append(requests, [year |-> year, url |-> Url(year)])
    /\ outcome' = "raise"
    /\ crash' = "ConnectionError"
    /\ pc' = "crashed"
    /\ UNCHANGED <<year, rows, thai_population, created, exports, disk, disk0, arg, result,
                   loaded>>

\* One iteration of the for loop on a line that parses and whose key is free
InsertRow ==
    /\ pc = "rows"
    /\ rows # <<>>
    /\ ~RowRaises(Head(rows))
    /\ LET r == StoredRow(RowSql(year, Head(rows))) IN
         /\ ~KeyTaken(thai_population, r)
         /\ thai_population' = Append(thai_population, r)
    /\ rows' = Tail(rows)
    /\ UNCHANGED <<pc, year, created, requests, outcome, crash, exports, disk, disk0,
                   arg, result,
                   loaded>>

\* as RowValueError, with the ValueError caught and the line skipped
RowValueErrorSkip ==
    /\ pc = "rows"
    /\ rows # <<>>
    /\ RowRaises(Head(rows))
    /\ rows' = Tail(rows)
    /\ UNCHANGED <<pc, year, thai_population, created, requests, outcome, crash, exports,
                   disk, disk0, arg, result, loaded>>

\* One iteration on a line that does not parse: ValueError ends the process
RowValueError ==
    /\ pc = "rows"
    /\ rows # <<>>
    /\ RowRaises(Head(rows))
    /\ crash' = "ValueError"
    /\ pc' = "crashed"
    /\ UNCHANGED <<year, rows, thai_population, created, requests, outcome, exports,
                   disk, disk0, arg, result,
                   loaded>>

\* as RowConstraintError, for a table declared without its PRIMARY KEY
RowDuplicateInserted ==
    /\ pc = "rows"
    /\ rows # <<>>
    /\ ~RowRaises(Head(rows))
    /\ KeyTaken(thai_population, StoredRow(RowSql(year, Head(rows))))
    /\ thai_population' = Append(thai_population, StoredRow(RowSql(year, Head(rows))))
    /\ rows' = Tail(rows)
    /\ UNCHANGED <<pc, year, created, requests, outcome, crash, exports, disk, disk0,
                   arg, result, loaded>>

\* One iteration on a line whose (data_year, cc_code) is in the table already:
\* DuckDB raises ConstraintException, which ends the process
RowConstraintError ==
    /\ pc = "rows"
    /\ rows # <<>>
    /\ ~RowRaises(Head(rows))
    /\ KeyTaken(thai_population, StoredRow(RowSql(year, Head(rows))))
    /\ crash' = "ConstraintException"
    /\ pc' = "crashed"
    /\ UNCHANGED <<year, rows, thai_population, created, requests, outcome, exports,
                   disk, disk0, arg, result,
                   loaded>>

\* as NextYear, with write_into_hive_partition() indented into the while loop
NextYearExporting ==
    /\ pc = "rows"
    /\ rows = <<>>
    /\ year' = year + 1
    /\ loaded' = Append(loaded, year)
    /\ exports' = exports + 1
    /\ disk' = {[data_year |-> y, file |-> "data_0.parquet.gz",
                 rows |-> SelectSeq(thai_population, LAMBDA r : r.data_year = y)] :
                   y \in {thai_population[i].data_year : i \in 1..Len(thai_population)}}
                \cup {f \in disk : \A i \in 1..Len(thai_population) :
                                      thai_population[i].data_year # f.data_year}
    /\ pc' = "fetch"
    /\ UNCHANGED <<rows, thai_population, created, requests, outcome, crash,
                   disk0, arg, result>>

\* The for loop is over: year += 1
NextYear ==
    /\ pc = "rows"
    /\ rows = <<>>
    /\ year' = year + 1
    /\ loaded' = Append(loaded, year)
    /\ pc' = "fetch"
    /\ UNCHANGED <<rows, thai_population, created, requests, outcome, crash, exports,
                   disk, disk0, arg, result>>

\* PARTITION_BY (cc_code): the wrong column
PartitionKeysByCcCode(table) == {table[i].cc_code : i \in 1..Len(table)}

\* PARTITION_BY (data_year): one directory per value of the column
PartitionKeys(table) == {table[i].data_year : i \in 1..Len(table)}

PartitionRows(table, y) == SelectSeq(table, LAMBDA r : r.data_year = y)

\* COPY ... TO with OVERWRITE: the directory is emptied first
CopyToOverwrite(files, table) ==
    {[data_year |-> y, file |-> "data_0.parquet.gz",
      rows |-> SelectSeq(table, LAMBDA r : r.data_year = y)] :
        y \in {table[i].data_year : i \in 1..Len(table)}}

\* COPY ... TO with OVERWRITE_OR_IGNORE: the directory may hold files already; a
\* file the copy writes replaces a file of the same path, every other file stays
CopyTo(files, table) ==
    LET written == {File(y, "data_0.parquet.gz", PartitionRows(table, y)) :
                       y \in PartitionKeys(table)}
    IN {f \in files : \A w \in written :
                         ~(w.data_year = f.data_year /\ w.file = f.file)} \cup written

\* write_into_hive_partition()
Export ==
    /\ pc = "export"
    /\ exports' = exports + 1
    /\ disk' = CopyTo(disk, thai_population)
    /\ pc' = "done"
    /\ UNCHANGED <<year, rows, thai_population, created, requests, outcome, crash,
                   disk0, arg, result,
                   loaded>>

Next ==
    \/ CreateTable
    \/ FetchOk
    \/ FetchErr
    \/ FetchRaise
    \/ InsertRow
    \/ RowValueError
    \/ RowConstraintError
    \/ NextYear
    \/ Export

Spec == Init /\ [][Next]_vars

-----------------------------------------------------------------------------
(* clean_text on its own: every text of up to MaxTextLen characters *)

MaxTextLen == 4

CleanInputs == UNION {[1..n -> {BOM, "a", PIPE, NL}] : n \in 0..MaxTextLen}

Idle ==
    /\ year = StartYear
    /\ rows = <<>>
    /\ thai_population = <<>>
    /\ created = 0
    /\ requests = <<>>
    /\ loaded = <<>>
    /\ outcome = "none"
    /\ crash = "none"
    /\ exports = 0
    /\ disk0 = {}
    /\ disk = {}
    /\ result = <<>>

InitClean ==
    /\ pc = "clean_call"
    /\ arg \in CleanInputs
    /\ Idle

CleanText ==
    /\ pc = "clean_call"
    /\ result' = clean_text(arg)
    /\ pc' = "clean_return"
    /\ UNCHANGED <<year, rows, thai_population, created, requests, loaded, outcome,
                   crash, exports, disk, disk0, arg>>

NextClean == CleanText

SpecClean == InitClean /\ [][NextClean]_vars

-----------------------------------------------------------------------------
(* The parsing of one line on its own: the line is built from 13 fields *)

ParseInputs ==
    {<<yymm, cc_code, cc_desc, T, T, <<>>, T, <<"1", "0">>, ccaattmm_desc,
       male, <<"0">>, total, house>> :
        yymm \in {<<>>, <<"3", "6">>},
        cc_code \in {<<"0", "0", "1">>, <<"1", "2">>},
        cc_desc \in {<<>>, T},
        ccaattmm_desc \in {<<>>, T},
        male \in {<<"1", COMMA, "2", "3", "4">>, <<"5">>},
        total \in {<<"1", COMMA, "2", "3", "9">>, <<"5">>},
        house \in {<<"2", COMMA, "0">>, <<"9">>}}

InitParse ==
    /\ pc = "parse_call"
    /\ arg \in ParseInputs
    /\ Idle

\* What one iteration of the for loop makes of the line built from arg, up to
\* the call of generate_insert_sql
ParseLine ==
    /\ pc = "parse_call"
    /\ LET row == WrapLine(arg) IN
         result' = IF RowRaises(row)
                   THEN [raised |-> TRUE, values |-> <<>>]
                   ELSE [raised |-> FALSE, values |-> RowValues(row)]
    /\ pc' = "parse_return"
    /\ UNCHANGED <<year, rows, thai_population, created, requests, loaded, outcome,
                   crash, exports, disk, disk0, arg>>

NextParse == ParseLine

SpecParse == InitParse /\ [][NextParse]_vars

-----------------------------------------------------------------------------
(* The claims *)

IsPrefix(a, b) == Len(a) <= Len(b) /\ SubSeq(b, 1, Len(a)) = a

YearsOf(table) == {table[i].data_year : i \in 1..Len(table)}

C1_AfterErr ==
    /\ outcome = "Err" =>
          /\ pc \in {"export", "done"}
          /\ Len(requests) = year - 1993 + 1
          /\ \A i \in 1..Len(requests) : requests[i].year = 1993 + (i - 1)
          /\ loaded = [i \in 1..(year - 1993) |-> 1993 + (i - 1)]
          /\ exports = IF pc = "done" THEN 1 ELSE 0
    /\ exports > 0 => outcome = "Err" /\ pc = "done"

C1_AfterExport == exports > 0 => UNCHANGED <<requests, thai_population, loaded, exports>>

\* C1: when the fetcher first returns failure at year F, the years fetched are
\* 1993, ..., F in this order, each once, the years loaded are exactly
\* 1993, ..., F-1, the exporter has run once when the script is done, it runs
\* only after the failing fetch, and no fetch or insert follows it.
C1_DriverTermination == [](C1_AfterErr) /\ [][C1_AfterExport]_vars

C1_Witness ==
    /\ pc = "done"
    /\ year = 1995
    /\ loaded = <<1993, 1994>>
    /\ Len(thai_population) >= 2

\* C2: every outcome of a fetch, a network error included, reaches the driver
\* as Ok or Err, and no fetch failure ends the process with an exception.
C2_FetcherNeverThrows == outcome \in {"none", "Ok", "Err"} /\ crash # "ConnectionError"

C3_NotNumeric(field) ==
    \/ \E i \in 1..Len(field) : field[i] \notin Digits \cup {COMMA}
    \/ \A i \in 1..Len(field) : field[i] = COMMA

C3_Malformed(line) ==
    LET f == split(strip(line, {PIPE}), PIPE) IN
    IF Len(f) # 13 THEN TRUE ELSE \E k \in {2, 10, 11, 12, 13} : C3_NotNumeric(f[k])

C3_Abort ==
    /\ (pc = "rows" /\ rows # <<>> /\ C3_Malformed(Head(rows))) =>
          /\ pc' = "crashed"
          /\ UNCHANGED <<thai_population, requests, exports, disk, rows, year>>
    /\ pc # "crashed"

\* C3: a malformed line (field count other than 13, a blank line, a numeric
\* field that is no numeral) ends the run: the step that meets it inserts
\* nothing, no step follows it, and the exporter has not run, so nothing of the
\* table reaches the disk.
C3_ParseFailureAborts ==
    [](crash = "ValueError" => pc = "crashed" /\ exports = 0 /\ disk = disk0)
    /\ [][C3_Abort]_vars

\* two rows are in the table, the first line of the 1994 body is malformed and a
\* line follows it
C3_Witness ==
    /\ crash = "ValueError"
    /\ Len(thai_population) >= 2
    /\ Len(rows) = 2
    /\ year = 1994

\* C4: the table never holds two rows with the same (data_year, cc_code).
C4_PrimaryKeyUnique ==
    \A i, j \in 1..Len(thai_population) :
        (thai_population[i].data_year = thai_population[j].data_year
         /\ thai_population[i].cc_code = thai_population[j].cc_code) => i = j

\* a body with cc_code 1 twice for its year: the second line was refused
C4_Witness ==
    /\ crash = "ConstraintException"
    /\ Len(rows) = 1
    /\ \E i \in 1..Len(thai_population) :
          thai_population[i].data_year = year /\ thai_population[i].cc_code = 1

C5_Number(field) == int(SelectSeq(field, LAMBDA c : c \in Digits))

\* C5: the line built from 13 fields, joined by | and wrapped in one leading and
\* one trailing |, parses into those 13 fields in their order, cc_code, male,
\* female, total and house as integers without their thousands separators.
C5_ParserRoundTrip ==
    pc = "parse_return" =>
        result = [raised |-> FALSE,
                  values |-> <<arg[1], C5_Number(arg[2]), arg[3], arg[4], arg[5], arg[6],
                               arg[7], arg[8], arg[9], C5_Number(arg[10]),
                               C5_Number(arg[11]), C5_Number(arg[12]),
                               C5_Number(arg[13])>>]

\* C6: clean_text removes a leading BOM and nothing else.
C6_BomStripping ==
    pc = "clean_return" =>
        /\ result # <<>> => result[1] # BOM
        /\ (arg # <<>> /\ arg[1] = BOM) => result = Tail(arg)
        /\ (arg = <<>> \/ arg[1] # BOM) => result = arg

\* C7: the i-th GET is the only one for year 1993 + (i - 1), and its URL holds
\* t = (Y + 543) - 2500 in both places; t is 36 for 1993 and grows by one a year.
C7_OneGetPerYear ==
    /\ Len(requests) = (year - 1993) + (IF pc \in {"create", "fetch"} THEN 0 ELSE 1)
    /\ \A i \in 1..Len(requests) :
          LET Y == 1993 + (i - 1)
              t == (Y + 543) - 2500
          IN /\ requests[i].year = Y
             /\ requests[i].url = <<"https://stat.bora.dopa.go.th/new_stat/file/", t,
                                    "/stat_c", t, ".txt">>
             /\ requests[i].url[2] = 36 + (i - 1)

C7_Witness ==
    /\ Len(requests) = 3
    /\ requests[1].url[2] = 36
    /\ requests[3].url[4] = 38

\* C8: after an export into an empty directory, the partition directories are
\* exactly the data_year values of the table, and the files of each hold all and
\* only the rows of that year, in .parquet.gz files.
C8_ExportPartitioning ==
    (pc = "done" /\ disk0 = {}) =>
        /\ {f.data_year : f \in disk} = YearsOf(thai_population)
        /\ \A f \in disk : f.file = "data_0.parquet.gz"
        /\ \A y \in YearsOf(thai_population) :
              UNION {{f.rows[i] : i \in 1..Len(f.rows)} : f \in {g \in disk : g.data_year = y}}
                = {thai_population[i] : i \in {j \in 1..Len(thai_population) :
                                                  thai_population[j].data_year = y}}

\* rows for 1993 and 1995, none for 1994 whose body was empty
C8_Witness ==
    /\ pc = "done"
    /\ disk0 = {}
    /\ loaded = <<1993, 1994, 1995>>
    /\ {f.data_year : f \in disk} = {1993, 1995}

C10_Created ==
    /\ created <= 1
    /\ pc # "create" => created = 1
    /\ requests # <<>> => created = 1
    /\ (pc = "fetch" /\ requests = <<>>) => thai_population = <<>>

C10_Step ==
    /\ year' >= year
    /\ IsPrefix(thai_population, thai_population')
    /\ Len(thai_population') <= Len(thai_population) + 1
    /\ requests' # requests => thai_population' = thai_population
    /\ created' # created => requests = <<>>

\* C10: the table is created once, empty, before the first fetch; after that
\* the year never decreases, a step adds at most one row at the end of the
\* table and changes no row that is there, and a fetch leaves the table alone.
C10_AppendOnly == [](C10_Created) /\ [][C10_Step]_vars

C10_Witness ==
    /\ year = 1995
    /\ outcome = "Err"
    /\ Len(thai_population) = 4

====
